---- MODULE Spec2Model ----
(***************************************************************************)
(* Model of the slot reservation core of src/app.py: the reservation and   *)
(* block stores, the transactional put, the read-then-delete delete, and   *)
(* the page handlers (weekly grid, "my reservations", admin panel) that    *)
(* call them; the class-count settings with their process-wide cache; and  *)
(* the calendar, assignment and eligibility functions.                     *)
(*                                                                         *)
(* Dates are day numbers counted from 2025-09-01 (a Monday) = 0, so that   *)
(* date.weekday() is day % 7.  Times of day are minutes since midnight.    *)
(* Text values (purpose, PIN, reason) are sequences of characters.         *)
(* Server-assigned timestamp fields (created_at, updated_at) are not read  *)
(* by any code path and are left out of the records.                       *)
(***************************************************************************)
EXTENDS Integers, Sequences, FiniteSets, TLC

VARIABLES reservations, blocks, now, pc, arg, view, result, stale,
          settings, settings_cache

vars == <<reservations, blocks, now, pc, arg, view, result, stale,
          settings, settings_cache>>

None == "None"

\* a document snapshot whose .exists is False
NoDoc == [exists |-> FALSE]

\* an empty st.cache_data entry
NoCache == [cached |-> FALSE]

\* "no grade" (None in the assignment table; falsy like None)
NoGrade == 0

(* ------------------------------ bounds -------------------------------- *)
NumUsers == 1
NumRacers == 3
NumSessions == 2
NumCallers == 2
NumWeeks == 22
MaxPeriods == 8
NumActors == 1

(* ------------------------- constants / utilities ---------------------- *)
SUMMER_BREAK_START == 0
SUMMER_BREAK_END == 9
ASSIGN_DEFAULT_START == 7
ADMIN_PASSWORD == <<"p", "w">>

weekday(d) == d % 7

week_monday(d) == d - weekday(d)

format_hhmm(t) == <<t \div 60, t % 60>>

RECURSIVE PeriodStart(_)
PeriodStart(p) == IF p = 1 THEN 8 * 60 + 50 ELSE PeriodStart(p - 1) + 40 + 10

\* variant of build_period_table: lessons back to back, no break
build_period_table_no_break(max_periods) ==
  [p \in 1..max_periods |->
     <<8 * 60 + 50 + 40 * (p - 1), 8 * 60 + 50 + 40 * p>>]

build_period_table(max_periods) ==
  [p \in 1..max_periods |-> <<PeriodStart(p), PeriodStart(p) + 40>>]

\* variant of open_time_for_week: the Friday
open_time_for_week_friday(monday) == <<monday - 3, 7 * 60>>

open_time_for_week(monday) == <<monday - 4, 7 * 60>>

\* days of month m in the years the model covers (2025, 2026: no leap day)
DaysIn(m) == IF m \in {4, 6, 9, 11} THEN 30 ELSE IF m = 2 THEN 28 ELSE 31

\* the calendar date n days after the first of month m of year y
RECURSIVE DateFrom(_, _, _)
DateFrom(y, m, n) ==
  IF n < DaysIn(m) THEN <<y, m, n + 1>>
  ELSE IF m = 12 THEN DateFrom(y + 1, 1, n - DaysIn(m))
  ELSE DateFrom(y, m + 1, n - DaysIn(m))

\* date.isoformat(): "YYYY-MM-DD" of a day number, as <<year, month, day>>;
\* day numbers from -31 (2025-08-01) on
isoformat(d) ==
  IF d >= 0 THEN DateFrom(2025, 9, d) ELSE DateFrom(2025, 8, d + 31)

\* open_dt.strftime('%m/%d %H:%M') as <<month, day, hour, minute>>
strftime_md_hm(dt) ==
  <<isoformat(dt[1])[2], isoformat(dt[1])[3], dt[2] \div 60, dt[2] % 60>>

\* variant of DtGeq: the dates compared, the time of day ignored
DtGeqDate(a, b) == a[1] >= b[1]

\* variant of DtGeq: the instant of opening itself left out
DtGt(a, b) == a[1] > b[1] \/ (a[1] = b[1] /\ a[2] > b[2])

\* datetime comparison a >= b on <<day, minute>> pairs
DtGeq(a, b) == a[1] > b[1] \/ (a[1] = b[1] /\ a[2] >= b[2])

hash_pin(pin) == <<"sha256", pin>>

RECURSIVE lstrip(_)
lstrip(s) == IF s # <<>> /\ Head(s) = " " THEN lstrip(Tail(s)) ELSE s

RECURSIVE rstrip(_)
rstrip(s) ==
  IF s # <<>> /\ s[Len(s)] = " " THEN rstrip(SubSeq(s, 1, Len(s) - 1)) ELSE s

strip(s) == rstrip(lstrip(s))

Digits == {"0", "1", "2", "3", "4", "5", "6", "7", "8", "9"}

isdigit(s) == s # <<>> /\ \A i \in 1..Len(s) : s[i] \in Digits

\* lines 293 / 371 / 435: a PIN is accepted when it is exactly 4 digits
ValidPin(pin) == pin # <<>> /\ isdigit(pin) /\ Len(pin) = 4

(* --------------------------- assignment table ------------------------- *)
ASSIGN_DEFAULT_SEQUENCE ==
  <<1, 1, 1, 2, NoGrade, 2, 3, 3, 6, 5, 4, 1, 1, 2, 2, 3, 3, 4, 5, 6, 6>>

\* keyed by the ISO date of each Monday; the None entry gets no key
ASSIGN_DEFAULTS ==
  LET monday_i(i) == ASSIGN_DEFAULT_START + 7 * (i - 1)
      set == {i \in 1..Len(ASSIGN_DEFAULT_SEQUENCE) :
                ASSIGN_DEFAULT_SEQUENCE[i] # NoGrade}
  IN [k \in {isoformat(monday_i(i)) : i \in set} |->
        ASSIGN_DEFAULT_SEQUENCE[CHOOSE i \in set : isoformat(monday_i(i)) = k]]

EmptyDict == [k \in {} |-> NoGrade]

\* load_assignments on the config/weekly_assignments document doc; the
\* stored grades are integer fields
load_assignments(doc) == IF doc.exists THEN doc.data ELSE EmptyDict

\* variant of MergeDicts: the left dict wins
MergeDictsLeftWins(a, b) ==
  [k \in DOMAIN a \cup DOMAIN b |-> IF k \in DOMAIN a THEN a[k] ELSE b[k]]

\* {**a, **b}
MergeDicts(a, b) ==
  [k \in DOMAIN a \cup DOMAIN b |-> IF k \in DOMAIN b THEN b[k] ELSE a[k]]

\* line 150, for the weekly_assignments document the process loaded
AssignFrom(doc) == MergeDicts(ASSIGN_DEFAULTS, load_assignments(doc))

\* no code writes config/weekly_assignments: the pages run without it
ASSIGN == AssignFrom(NoDoc)

\* table.get(monday.isoformat())
AssignedGradeIn(table, monday) ==
  IF isoformat(monday) \in DOMAIN table THEN table[isoformat(monday)] ELSE NoGrade

assigned_grade_for_week(monday) == AssignedGradeIn(ASSIGN, monday)

(* ------------------------------ input sets ---------------------------- *)
Slot(day, period) ==
  [day |-> day, period |-> period,
   start |-> build_period_table(6)[period][1],
   end |-> build_period_table(6)[period][2]]

\* the slot ids the handlers are driven with: those of the store under check
SlotKeys == DOMAIN reservations
\* 2025-09-17 (Wed) P1 and P6
TermSlots == {<<16, 1>>, <<16, 6>>}
\* 2025-09-10 (Wed, last day of the summer break) P1; 2025-09-17 (Wed) P1
BreakSlots == {<<9, 1>>, <<16, 1>>}
Grades == {1, 2}
Classes == {1}
Pins == {<<>>, <<"0", "0", "0", "0">>, <<"1", "2", "3", "4">>}
Purposes == {<<>>, <<" ">>, <<" ", "s">>}
Reasons == {<<" ">>, <<"e">>}
\* the clock readings kst_now() can return, in order
Clock == << <<10, 6 * 60 + 59>>, <<10, 7 * 60>> >>

\* the sessions of the pages: session 0 has typed the admin password
Clients == 0..NumUsers
Racers == 1..NumRacers
Sessions == 1..NumSessions
Callers == 1..NumCallers
Actors == 1..NumActors

admin_pw(c) == IF c = 0 THEN ADMIN_PASSWORD ELSE <<>>

is_admin(c) == admin_pw(c) # <<>> /\ admin_pw(c) = ADMIN_PASSWORD

Procs == DOMAIN pc

NoArg == [slot |-> None]
NoResult == <<>>

(* ------------------------------ messages ------------------------------ *)
MSG_RESERVED == "reservation completed"
MSG_ALREADY == "already reserved"
MSG_NOTHING == "no reservation in this slot"
MSG_ADMIN_DELETED == "deleted by admin"
MSG_PIN_MISMATCH == "PIN mismatch"
MSG_DELETED == "reservation deleted"
MSG_BLOCKED == "slot blocked"
MSG_UNBLOCKED == "block cleared"
MSG_NOT_BLOCKED == "not blocked"
MSG_SAVED == "saved, applies after a refresh (F5)"

(* ------------------------------ DB helpers ---------------------------- *)
\* variant of id: the period left out of the key
id_without_period(slot) == <<slot.day, 1>>

\* Slot.id: "<ISO date>_P<period>", kept as the pair it is formatted from
id(slot) == <<slot.day, slot.period>>

\* the payload dict built inside txn_op
Payload(slot, grade, class_no, purpose, pin) ==
  [date |-> slot.day, period |-> slot.period,
   start |-> format_hhmm(slot.start), end |-> format_hhmm(slot.end),
   grade |-> grade, class_no |-> class_no,
   purpose |-> strip(purpose), pin_hash |-> hash_pin(pin)]

\* variants of TxnAborts: the occupancy check dropped; the force flag ignored
TxnAbortsNever(snap_exists, force) == FALSE

TxnAbortsIgnoringForce(snap_exists, force) == snap_exists

\* txn_op: "if snap.exists and not force: raise"
TxnAborts(snap_exists, force) == snap_exists /\ ~force

\* variant of PutOutcome: the except branch reports success
PutOutcomeAlwaysTrue(exc) == <<TRUE, MSG_RESERVED>>

\* put_reservation's try/except: an exception raised inside the transaction
\* becomes the value (False, str(e)); no exception gives (True, message)
PutOutcome(exc) == IF exc = None THEN <<TRUE, MSG_RESERVED>> ELSE <<FALSE, exc>>

\* variant of CommitConflict: a commit that never detects a concurrent write
CommitConflictNever(c) == FALSE

\* the commit of a transaction fails when the document it read was written
\* by someone else after the read; the transaction body is then run again
CommitConflict(c) == c \in stale

\* transactions in flight on document k whose read a write by c makes stale
Invalidated(c, k) ==
  {d \in Procs \ {c} : pc[d] = "put_commit" /\ id(arg[d].slot) = k}

\* variants of DeleteDenied: the hash comparison dropped; the admin flag ignored
DeleteDeniedOnlyEmptyPin(admin, pin, pin_hash) == ~admin /\ pin = <<>>

DeleteDeniedAdminToo(admin, pin, pin_hash) ==
  pin = <<>> \/ hash_pin(pin) # pin_hash

\* delete_reservation: the record is kept when the caller is not an admin and
\* the PIN is missing or hashes to something else than the stored pin_hash
DeleteDenied(admin, pin, pin_hash) ==
  ~admin /\ (pin = <<>> \/ hash_pin(pin) # pin_hash)

\* variant of SnapMissing: the existence check dropped
SnapMissingNever(snap) == FALSE

\* delete_reservation line 193: "if not snap.exists"
SnapMissing(snap) == snap = NoDoc

\* (snap.to_dict() or {}).get("pin_hash"): None, written <<>>, when absent
PinHashOf(snap) == IF snap = NoDoc THEN <<>> ELSE snap.pin_hash

PutArgs(slot, grade, class_no, purpose, pin, force) ==
  [slot |-> slot, grade |-> grade, class_no |-> class_no,
   purpose |-> purpose, pin |-> pin, force |-> force]

DelArgs(slot_id, pin, admin) == [slot_id |-> slot_id, pin |-> pin, admin |-> admin]

\* entry into put_reservation: nothing is read or written before txn_op runs
put_reservation(c, slot, grade, class_no, purpose, pin, force) ==
  /\ pc' = [pc EXCEPT ![c] = "put_txn"]
  /\ arg' = [arg EXCEPT ![c] = PutArgs(slot, grade, class_no, purpose, pin, force)]
  /\ view' = [view EXCEPT ![c] = None]
  /\ result' = [result EXCEPT ![c] = NoResult]
  /\ UNCHANGED <<reservations, blocks, now, stale,
               settings, settings_cache>>

\* entry into delete_reservation
delete_reservation(c, slot_id, pin, admin) ==
  /\ pc' = [pc EXCEPT ![c] = "del_read"]
  /\ arg' = [arg EXCEPT ![c] = DelArgs(slot_id, pin, admin)]
  /\ view' = [view EXCEPT ![c] = None]
  /\ result' = [result EXCEPT ![c] = NoResult]
  /\ UNCHANGED <<reservations, blocks, now, stale,
               settings, settings_cache>>

Return(c, res) ==
  /\ pc' = [pc EXCEPT ![c] = "idle"]
  /\ arg' = [arg EXCEPT ![c] = NoArg]
  /\ view' = [view EXCEPT ![c] = None]
  /\ result' = [result EXCEPT ![c] = res]

\* txn_op up to its decision: read the snapshot, raise or build the payload
PutTxnRead(c) ==
  /\ pc[c] = "put_txn"
  /\ stale' = stale \ {c}
  /\ IF TxnAborts(reservations[id(arg[c].slot)] # NoDoc, arg[c].force)
       THEN Return(c, PutOutcome(MSG_ALREADY))
       ELSE /\ pc' = [pc EXCEPT ![c] = "put_commit"]
            /\ UNCHANGED <<arg, view, result>>
  /\ UNCHANGED <<reservations, blocks, now,
               settings, settings_cache>>

\* txn.set + commit; on a conflict the transaction body is retried
PutTxnCommit(c) ==
  /\ pc[c] = "put_commit"
  /\ IF CommitConflict(c)
       THEN /\ pc' = [pc EXCEPT ![c] = "put_txn"]
            /\ stale' = stale \ {c}
            /\ UNCHANGED <<reservations, arg, view, result>>
       ELSE /\ reservations' =
                 [reservations EXCEPT ![id(arg[c].slot)] =
                    Payload(arg[c].slot, arg[c].grade, arg[c].class_no,
                            arg[c].purpose, arg[c].pin)]
            /\ stale' = stale \cup Invalidated(c, id(arg[c].slot))
            /\ Return(c, PutOutcome(None))
  /\ UNCHANGED <<blocks, now,
               settings, settings_cache>>

\* delete_reservation lines 192-200: get, then the checks on the snapshot
DelRead(c) ==
  /\ pc[c] = "del_read"
  /\ LET snap == reservations[arg[c].slot_id] IN
       IF SnapMissing(snap)
         THEN Return(c, <<FALSE, MSG_NOTHING>>)
         ELSE IF DeleteDenied(arg[c].admin, arg[c].pin, PinHashOf(snap))
           THEN Return(c, <<FALSE, MSG_PIN_MISMATCH>>)
           ELSE /\ pc' = [pc EXCEPT ![c] = "del_commit"]
                /\ UNCHANGED <<arg, view, result>>
  /\ UNCHANGED <<reservations, blocks, now, stale,
               settings, settings_cache>>

\* delete_reservation lines 197-198 / 201-202: doc_ref.delete() and return
DelCommit(c) ==
  /\ pc[c] = "del_commit"
  /\ reservations' = [reservations EXCEPT ![arg[c].slot_id] = NoDoc]
  /\ stale' = stale \cup Invalidated(c, arg[c].slot_id)
  /\ Return(c, IF arg[c].admin THEN <<TRUE, MSG_ADMIN_DELETED>>
                               ELSE <<TRUE, MSG_DELETED>>)
  /\ UNCHANGED <<blocks, now,
               settings, settings_cache>>

\* get_block: the block dict, or a falsy value when there is none
get_block(slot_id) == blocks[slot_id]

\* variant of BlockPayload: the reason stored as typed
BlockPayloadUntrimmed(slot, reason, admin_name) ==
  [date |-> slot.day, period |-> slot.period,
   reason |-> reason, admin |-> strip(admin_name)]

\* the payload dict built by set_block
BlockPayload(slot, reason, admin_name) ==
  [date |-> slot.day, period |-> slot.period,
   reason |-> strip(reason), admin |-> strip(admin_name)]

SetBlockArgs(slot, reason, admin_name) ==
  [slot |-> slot, reason |-> reason, admin_name |-> admin_name]

ClearBlockArgs(slot_id) == [slot_id |-> slot_id]

\* entry into set_block
set_block(c, slot, reason, admin_name) ==
  /\ pc' = [pc EXCEPT ![c] = "blk_write"]
  /\ arg' = [arg EXCEPT ![c] = SetBlockArgs(slot, reason, admin_name)]
  /\ view' = [view EXCEPT ![c] = None]
  /\ result' = [result EXCEPT ![c] = NoResult]
  /\ UNCHANGED <<reservations, blocks, now, stale,
               settings, settings_cache>>

\* set_block lines 212-220: one document write, then return
BlockWrite(c) ==
  /\ pc[c] = "blk_write"
  /\ blocks' = [blocks EXCEPT ![id(arg[c].slot)] =
                  BlockPayload(arg[c].slot, arg[c].reason, arg[c].admin_name)]
  /\ Return(c, <<TRUE, MSG_BLOCKED>>)
  /\ UNCHANGED <<reservations, now, stale,
               settings, settings_cache>>

\* entry into clear_block
clear_block(c, slot_id) ==
  /\ pc' = [pc EXCEPT ![c] = "clr_read"]
  /\ arg' = [arg EXCEPT ![c] = ClearBlockArgs(slot_id)]
  /\ view' = [view EXCEPT ![c] = None]
  /\ result' = [result EXCEPT ![c] = NoResult]
  /\ UNCHANGED <<reservations, blocks, now, stale,
               settings, settings_cache>>

\* clear_block lines 224-225, 228: ref.get().exists, else fail
ClrRead(c) ==
  /\ pc[c] = "clr_read"
  /\ IF blocks[arg[c].slot_id] # NoDoc
       THEN /\ pc' = [pc EXCEPT ![c] = "clr_commit"]
            /\ UNCHANGED <<arg, view, result>>
       ELSE Return(c, <<FALSE, MSG_NOT_BLOCKED>>)
  /\ UNCHANGED <<reservations, blocks, now, stale,
               settings, settings_cache>>

\* clear_block lines 226-227: ref.delete() and return
ClrCommit(c) ==
  /\ pc[c] = "clr_commit"
  /\ blocks' = [blocks EXCEPT ![arg[c].slot_id] = NoDoc]
  /\ Return(c, <<TRUE, MSG_UNBLOCKED>>)
  /\ UNCHANGED <<reservations, now, stale,
               settings, settings_cache>>

(* --------------------------------- UI --------------------------------- *)
\* can_book as the script evaluates it for client c in the week of monday
can_book(c, user_grade, monday) ==
  LET assigned == assigned_grade_for_week(monday)
      open_dt == open_time_for_week(monday)
  IN IF is_admin(c) THEN <<TRUE, <<"admin">> >>
     ELSE IF assigned # NoGrade /\ user_grade = assigned
       THEN <<TRUE, <<"priority week">> >>
     ELSE IF DtGeq(now, open_dt) THEN <<TRUE, <<"open">> >>
     ELSE <<FALSE, <<"not open yet, opens", strftime_md_hm(open_dt)>> >>

\* variant of InSummerBreak: the last day of the range left out
InSummerBreakExclusiveEnd(d) == SUMMER_BREAK_START <= d /\ d < SUMMER_BREAK_END

InSummerBreak(d) == SUMMER_BREAK_START <= d /\ d <= SUMMER_BREAK_END

IsWed6(d, p) == weekday(d) = 2 /\ p = 6

\* the branch the grid takes for one cell (lines 326-368); data is the
\* truth value of the reservation dict read at line 323
Cell(d, p, data, block) ==
  IF InSummerBreak(d) THEN "vac"
  ELSE IF IsWed6(d, p) THEN "wed6"
  ELSE IF block # NoDoc THEN "blocked"
  ELSE IF data THEN "reserved"
  ELSE "open"

\* one run of the booking page up to one cell of the week grid: the cell's
\* reservation is read (lines 322-323)
GridRender(c) ==
  /\ pc[c] = "idle"
  /\ \E k \in SlotKeys :
       /\ weekday(k[1]) < 5
       /\ pc' = [pc EXCEPT ![c] = "grid_block"]
       /\ arg' = [arg EXCEPT ![c] = [slot |-> Slot(k[1], k[2])]]
       /\ view' = [view EXCEPT ![c] =
                     IF reservations[k] # NoDoc THEN "data" ELSE "no data"]
       /\ result' = [result EXCEPT ![c] = NoResult]
  /\ UNCHANGED <<reservations, blocks, now, stale,
               settings, settings_cache>>

\* the cell's block is read (line 324) and the cell's branch is chosen
GridReadBlock(c) ==
  /\ pc[c] = "grid_block"
  /\ pc' = [pc EXCEPT ![c] = "grid"]
  /\ view' = [view EXCEPT ![c] =
                Cell(arg[c].slot.day, arg[c].slot.period, view[c] = "data",
                     get_block(id(arg[c].slot)))]
  /\ UNCHANGED <<reservations, blocks, now, arg, result, stale,
               settings, settings_cache>>

\* "예약" then "최종 예약 확정" on an open cell (lines 370-390)
GridBook(c) ==
  /\ pc[c] = "grid"
  /\ view[c] = "open"
  /\ \E sel_grade \in Grades, sel_class \in Classes,
        purpose \in Purposes, pin \in Pins :
       LET slot == arg[c].slot
           ok == can_book(c, sel_grade, week_monday(slot.day))[1]
           disabled == ~ok \/ purpose = <<>> \/ ~ValidPin(pin)
       IN /\ ~disabled
          /\ ok
          /\ put_reservation(c, slot, sel_grade, sel_class, purpose, pin,
                             is_admin(c))

\* "삭제" on a reserved cell (lines 355-367)
GridDelete(c) ==
  /\ pc[c] = "grid"
  /\ view[c] = "reserved"
  /\ IF is_admin(c)
       THEN delete_reservation(c, id(arg[c].slot), <<>>, TRUE)
       ELSE \E pin_in \in Pins :
              delete_reservation(c, id(arg[c].slot), pin_in, FALSE)

\* "차단 해제" on a blocked cell (lines 343-346)
GridUnblock(c) ==
  /\ pc[c] = "grid"
  /\ view[c] = "blocked"
  /\ is_admin(c)
  /\ clear_block(c, id(arg[c].slot))

\* "관리자 차단" then "차단 적용" on an open cell (lines 392-400)
GridBlock(c) ==
  /\ pc[c] = "grid"
  /\ view[c] = "open"
  /\ is_admin(c)
  /\ \E reason_txt \in Reasons, who \in {<<>>} :
       /\ strip(reason_txt) # <<>>
       /\ set_block(c, arg[c].slot, reason_txt, who)

\* the user presses nothing in this run
GridLeave(c) ==
  /\ pc[c] = "grid"
  /\ pc' = [pc EXCEPT ![c] = "idle"]
  /\ arg' = [arg EXCEPT ![c] = NoArg]
  /\ view' = [view EXCEPT ![c] = None]
  /\ UNCHANGED <<reservations, blocks, now, result, stale,
               settings, settings_cache>>

\* "내 예약 삭제" (lines 433-439)
MyDelete(c) ==
  /\ pc[c] = "idle"
  /\ \E del_sid \in SlotKeys, my_pin \in Pins :
       /\ ~(my_pin = <<>> \/ ~isdigit(my_pin) \/ Len(my_pin) # 4)
       /\ delete_reservation(c, del_sid, my_pin, FALSE)

\* "관리자 예약 강제 등록" (lines 481-491)
AdminForce(c) ==
  /\ pc[c] = "idle"
  /\ admin_pw(c) # <<>> /\ is_admin(c)
  /\ \E k \in SlotKeys, ad_grade \in Grades, ad_class \in Classes,
        ad_purpose \in Purposes, ad_pin \in Pins :
       put_reservation(c, Slot(k[1], k[2]), ad_grade, ad_class, ad_purpose,
                       IF ad_pin # <<>> THEN ad_pin ELSE <<"0", "0", "0", "0">>,
                       TRUE)

\* "관리자 예약 삭제" (lines 493-495)
AdminDelete(c) ==
  /\ pc[c] = "idle"
  /\ admin_pw(c) # <<>> /\ is_admin(c)
  /\ \E k \in SlotKeys : delete_reservation(c, k, <<>>, TRUE)

\* st.secrets has no CLASSES_PER_GRADE: six classes in each of six grades
DefaultCounts == [g \in 1..6 |-> 6]

\* the values typed into the number inputs (min_value=1, max_value=20)
CountInputs == {1, 6, 20}

\* SETTINGS = load_settings() of a script run (lines 123-130, 149): the
\* cached value when the process holds one; else the stored dict, or the
\* defaults after writing them, which is then cached
LoadSettings(c) ==
  /\ pc[c] = "idle"
  /\ IF settings_cache.cached
       THEN /\ view' = [view EXCEPT ![c] = settings_cache.value]
            /\ UNCHANGED <<settings, settings_cache>>
       ELSE LET value == IF settings.exists THEN settings.data
                         ELSE [classes_per_grade |-> DefaultCounts]
            IN /\ settings' = IF settings.exists THEN settings
                              ELSE [exists |-> TRUE, data |-> value]
               /\ settings_cache' = [cached |-> TRUE, value |-> value]
               /\ view' = [view EXCEPT ![c] = value]
  /\ pc' = [pc EXCEPT ![c] = "settings"]
  /\ UNCHANGED <<reservations, blocks, now, arg, result, stale>>

\* "학급 수 저장" (lines 458-466): the inputs start from classes_per_grade of
\* this run; the write goes to the document only
SaveClassCounts(c) ==
  /\ pc[c] = "settings"
  /\ admin_pw(c) # <<>> /\ is_admin(c)
  /\ \E typed \in [Grades -> CountInputs] :
       LET classes_per_grade == view[c].classes_per_grade
           new_cfg == [g \in 1..6 |->
                         IF g \in Grades THEN typed[g] ELSE classes_per_grade[g]]
       IN settings' =
            [exists |-> TRUE,
             data |-> IF settings.exists
                        THEN [settings.data EXCEPT !.classes_per_grade = new_cfg]
                        ELSE [classes_per_grade |-> new_cfg]]
  /\ Return(c, <<TRUE, MSG_SAVED>>)
  /\ UNCHANGED <<reservations, blocks, now, stale, settings_cache>>

\* the run ends without a save
SettingsLeave(c) ==
  /\ pc[c] = "settings"
  /\ Return(c, NoResult)
  /\ UNCHANGED <<reservations, blocks, now, stale, settings, settings_cache>>

\* the server process is restarted: the cache is gone, the sessions start over
Restart ==
  /\ settings_cache.cached
  /\ settings_cache' = NoCache
  /\ pc' = [c \in Procs |-> "idle"]
  /\ arg' = [c \in Procs |-> NoArg]
  /\ view' = [c \in Procs |-> None]
  /\ result' = [c \in Procs |-> NoResult]
  /\ UNCHANGED <<reservations, blocks, now, stale, settings>>

\* kst_now() moves on
Tick ==
  /\ \E i \in 1..(Len(Clock) - 1) : now = Clock[i] /\ now' = Clock[i + 1]
  /\ UNCHANGED <<reservations, blocks, pc, arg, view, result, stale,
               settings, settings_cache>>

(* ---------------------------- specifications -------------------------- *)
InitFor(P, K) ==
  /\ reservations = [k \in K |-> NoDoc]
  /\ blocks = [k \in K |-> NoDoc]
  /\ now = Clock[1]
  /\ pc = [c \in P |-> "idle"]
  /\ arg = [c \in P |-> NoArg]
  /\ view = [c \in P |-> None]
  /\ result = [c \in P |-> NoResult]
  /\ stale = {}
  /\ settings = NoDoc
  /\ settings_cache = NoCache

Init == InitFor(Clients, TermSlots)

Next ==
  \/ \E c \in Procs : GridRender(c)
  \/ \E c \in Procs : GridReadBlock(c)
  \/ \E c \in Procs : GridBook(c)
  \/ \E c \in Procs : GridDelete(c)
  \/ \E c \in Procs : GridUnblock(c)
  \/ \E c \in Procs : GridBlock(c)
  \/ \E c \in Procs : GridLeave(c)
  \/ \E c \in Procs : MyDelete(c)
  \/ \E c \in Procs : AdminForce(c)
  \/ \E c \in Procs : AdminDelete(c)
  \/ \E c \in Procs : PutTxnRead(c)
  \/ \E c \in Procs : PutTxnCommit(c)
  \/ \E c \in Procs : DelRead(c)
  \/ \E c \in Procs : DelCommit(c)
  \/ \E c \in Procs : BlockWrite(c)
  \/ \E c \in Procs : ClrRead(c)
  \/ \E c \in Procs : ClrCommit(c)
  \/ Tick

Spec == Init /\ [][Next]_vars

\* the purposes the direct calls are made with: those with some text in them
CallPurposes == {p \in Purposes : strip(p) # <<>>}

\* Racing writers: every racer calls put_reservation(force=False) once, on
\* any slot with any payload, and the calls interleave freely.
RacePut(c) ==
  /\ pc[c] = "idle"
  /\ result[c] = NoResult
  /\ \E k \in SlotKeys, grade \in Grades, class_no \in Classes,
        purpose \in CallPurposes, pin \in {p \in Pins : ValidPin(p)} :
       put_reservation(c, Slot(k[1], k[2]), grade, class_no, purpose, pin, FALSE)

InitRace == InitFor(Racers, TermSlots)

NextRace ==
  \/ \E c \in Procs : RacePut(c)
  \/ \E c \in Procs : PutTxnRead(c)
  \/ \E c \in Procs : PutTxnCommit(c)

SpecRace == InitRace /\ [][NextRace]_vars

\* The store functions called directly, with any arguments, any number of
\* times, by callers whose calls interleave freely.
CallPut(c) ==
  /\ pc[c] = "idle"
  /\ \E k \in SlotKeys, grade \in Grades, class_no \in Classes,
        purpose \in CallPurposes, pin \in {p \in Pins : ValidPin(p)},
        force \in BOOLEAN :
       put_reservation(c, Slot(k[1], k[2]), grade, class_no, purpose, pin, force)

CallDelete(c) ==
  /\ pc[c] = "idle"
  /\ \E k \in SlotKeys, pin \in Pins, admin \in BOOLEAN :
       delete_reservation(c, k, pin, admin)

\* 2025-09-17 (Wed) P1
CallSlots == {<<16, 1>>}

InitCalls == InitFor(Callers, CallSlots)

NextCalls ==
  \/ \E c \in Procs : CallPut(c)
  \/ \E c \in Procs : CallDelete(c)
  \/ \E c \in Procs : PutTxnRead(c)
  \/ \E c \in Procs : PutTxnCommit(c)
  \/ \E c \in Procs : DelRead(c)
  \/ \E c \in Procs : DelCommit(c)

SpecCalls == InitCalls /\ [][NextCalls]_vars

\* The pages as non-admin sessions drive them, started from any store an
\* admin may have left behind: forced registrations in any slot, blocks in
\* the slots the grid offers for blocking.
InitUsers ==
  /\ reservations \in
       [BreakSlots -> {NoDoc} \cup
          {Payload(Slot(k[1], k[2]), 2, 1, <<"s">>, <<"0", "0", "0", "0">>) :
             k \in BreakSlots}]
  /\ \A k \in BreakSlots :
       reservations[k] # NoDoc =>
         reservations[k].date = k[1] /\ reservations[k].period = k[2]
  /\ blocks \in
       [BreakSlots -> {NoDoc} \cup
          {[date |-> k[1], period |-> k[2], reason |-> <<"e">>, admin |-> <<>>] :
             k \in BreakSlots}]
  /\ \A k \in BreakSlots :
       blocks[k] # NoDoc =>
         /\ blocks[k].date = k[1] /\ blocks[k].period = k[2]
         /\ ~InSummerBreak(k[1]) /\ ~IsWed6(k[1], k[2])
  /\ now = Clock[1]
  /\ pc = [c \in Sessions |-> "idle"]
  /\ arg = [c \in Sessions |-> NoArg]
  /\ view = [c \in Sessions |-> None]
  /\ result = [c \in Sessions |-> NoResult]
  /\ stale = {}
  /\ settings = NoDoc
  /\ settings_cache = NoCache

NextUsers ==
  \/ \E c \in Procs : GridRender(c)
  \/ \E c \in Procs : GridReadBlock(c)
  \/ \E c \in Procs : GridBook(c)
  \/ \E c \in Procs : GridDelete(c)
  \/ \E c \in Procs : GridLeave(c)
  \/ \E c \in Procs : MyDelete(c)
  \/ \E c \in Procs : PutTxnRead(c)
  \/ \E c \in Procs : PutTxnCommit(c)
  \/ \E c \in Procs : DelRead(c)
  \/ \E c \in Procs : DelCommit(c)
  \/ Tick

SpecUsers == InitUsers /\ [][NextUsers]_vars

\* The pages as non-admin sessions drive them from an empty store, on a
\* slot of the week of 2025-09-15 (assigned grade 1, opening inside the
\* clock's range) and a slot of the week of 2025-10-06 (no assigned grade,
\* opening after the clock's range).
EarlySlots == {<<16, 1>>, <<37, 1>>}

InitEarly == InitFor(Sessions, EarlySlots)

SpecEarly == InitEarly /\ [][NextUsers]_vars

\* The block functions called directly, with any arguments, any number of
\* times, by callers whose calls interleave freely.
BlockReasons == Reasons \cup {<<" ", "e", " ">>, <<"f">>}

CallSetBlock(c) ==
  /\ pc[c] = "idle"
  /\ \E k \in SlotKeys, reason \in BlockReasons, admin_name \in {<<>>} :
       set_block(c, Slot(k[1], k[2]), reason, admin_name)

CallClearBlock(c) ==
  /\ pc[c] = "idle"
  /\ \E k \in SlotKeys : clear_block(c, k)

InitBlocks == InitFor(Callers, TermSlots)

NextBlocks ==
  \/ \E c \in Procs : CallSetBlock(c)
  \/ \E c \in Procs : CallClearBlock(c)
  \/ \E c \in Procs : BlockWrite(c)
  \/ \E c \in Procs : ClrRead(c)
  \/ \E c \in Procs : ClrCommit(c)

SpecBlocks == InitBlocks /\ [][NextBlocks]_vars

\* The four store functions called directly, with any arguments, any number
\* of times, by actors whose calls interleave freely, on two slots.
StorePut(c) ==
  /\ pc[c] = "idle"
  /\ \E k \in SlotKeys, pin \in {p \in Pins : ValidPin(p)}, force \in BOOLEAN :
       put_reservation(c, Slot(k[1], k[2]), 1, 1, <<"s">>, pin, force)

StoreSetBlock(c) ==
  /\ pc[c] = "idle"
  /\ \E k \in SlotKeys, reason \in Reasons :
       set_block(c, Slot(k[1], k[2]), reason, <<>>)

InitStore == InitFor(Actors, TermSlots)

NextStore ==
  \/ \E c \in Procs : StorePut(c)
  \/ \E c \in Procs : CallDelete(c)
  \/ \E c \in Procs : StoreSetBlock(c)
  \/ \E c \in Procs : CallClearBlock(c)
  \/ \E c \in Procs : PutTxnRead(c)
  \/ \E c \in Procs : PutTxnCommit(c)
  \/ \E c \in Procs : DelRead(c)
  \/ \E c \in Procs : DelCommit(c)
  \/ \E c \in Procs : BlockWrite(c)
  \/ \E c \in Procs : ClrRead(c)
  \/ \E c \in Procs : ClrCommit(c)

SpecStore == InitStore /\ [][NextStore]_vars

\* The class-count settings as the sessions of one process load and save them.
InitSettings == InitFor(Clients, CallSlots)

NextSettings ==
  \/ \E c \in Procs : LoadSettings(c)
  \/ \E c \in Procs : SaveClassCounts(c)
  \/ \E c \in Procs : SettingsLeave(c)
  \/ Restart

SpecSettings == InitSettings /\ [][NextSettings]_vars

\* The functions of the script applied once each, by one session, to inputs
\* drawn from the sets below, at any clock reading and over any store.
Mondays == {7 * i : i \in 0..NumWeeks}
GradeInputs == 1..3
\* around 2025-09-11 07:00, the opening of the week of 2025-09-15, and at
\* 2025-10-02 07:00, the opening of the week of 2025-10-06
NowInputs ==
  {<<9, 23 * 60 + 59>>, <<10, 6 * 60 + 59>>, <<10, 7 * 60>>, <<10, 7 * 60 + 1>>,
   <<11, 0>>, <<31, 7 * 60>>}

CanBookInputs ==
  {[fn |-> "can_book", user_grade |-> g, monday |-> m] :
     g \in GradeInputs, m \in Mondays}

\* weekly_assignments documents: absent, or overriding any of 2025-09-01
\* (before the table), 2025-09-08 (default 1), 2025-10-06 (no default)
OverrideKeys == {isoformat(0), isoformat(7), isoformat(35)}
OverrideGrades == {2, 5}
AssignmentDocs ==
  {NoDoc} \cup
  {[exists |-> TRUE, data |-> f] :
     f \in UNION {[K -> OverrideGrades] : K \in SUBSET OverrideKeys}}

AssignedInputs ==
  {[fn |-> "assigned_grade_for_week", doc |-> d, monday |-> m] :
     d \in AssignmentDocs, m \in Mondays}

OpenTimeInputs == {[fn |-> "open_time_for_week", monday |-> m] : m \in Mondays}

PeriodTableInputs ==
  {[fn |-> "build_period_table", max_periods |-> n] : n \in 0..MaxPeriods}

FunctionInputs ==
  CanBookInputs \cup AssignedInputs \cup OpenTimeInputs \cup PeriodTableInputs

EvalCanBook(c) ==
  /\ pc[c] = "idle"
  /\ arg[c].fn = "can_book"
  /\ result' = [result EXCEPT ![c] =
                  can_book(c, arg[c].user_grade, arg[c].monday)]
  /\ pc' = [pc EXCEPT ![c] = "done"]
  /\ UNCHANGED <<reservations, blocks, now, arg, view, stale,
               settings, settings_cache>>

\* lines 150-154 for a process that loaded the document arg[c].doc
EvalAssigned(c) ==
  /\ pc[c] = "idle"
  /\ arg[c].fn = "assigned_grade_for_week"
  /\ result' = [result EXCEPT ![c] =
                  <<AssignedGradeIn(AssignFrom(arg[c].doc), arg[c].monday)>>]
  /\ pc' = [pc EXCEPT ![c] = "done"]
  /\ UNCHANGED <<reservations, blocks, now, arg, view, stale,
               settings, settings_cache>>

EvalOpenTime(c) ==
  /\ pc[c] = "idle"
  /\ arg[c].fn = "open_time_for_week"
  /\ result' = [result EXCEPT ![c] = <<open_time_for_week(arg[c].monday)>>]
  /\ pc' = [pc EXCEPT ![c] = "done"]
  /\ UNCHANGED <<reservations, blocks, now, arg, view, stale,
               settings, settings_cache>>

EvalPeriodTable(c) ==
  /\ pc[c] = "idle"
  /\ arg[c].fn = "build_period_table"
  /\ result' = [result EXCEPT ![c] = <<build_period_table(arg[c].max_periods)>>]
  /\ pc' = [pc EXCEPT ![c] = "done"]
  /\ UNCHANGED <<reservations, blocks, now, arg, view, stale,
               settings, settings_cache>>

InitFunctions ==
  /\ reservations \in
       [CallSlots -> {NoDoc} \cup
          {Payload(Slot(k[1], k[2]), 2, 1, <<"s">>, <<"0", "0", "0", "0">>) :
             k \in CallSlots}]
  /\ blocks \in
       [CallSlots -> {NoDoc} \cup
          {[date |-> k[1], period |-> k[2], reason |-> <<"e">>, admin |-> <<>>] :
             k \in CallSlots}]
  /\ now \in NowInputs
  /\ \E c \in Clients :
       /\ pc = [x \in {c} |-> "idle"]
       /\ arg \in [{c} -> FunctionInputs]
       /\ view = [x \in {c} |-> None]
       /\ result = [x \in {c} |-> NoResult]
  /\ stale = {}
  /\ settings = NoDoc
  /\ settings_cache = NoCache

NextFunctions ==
  \/ \E c \in Procs : EvalCanBook(c)
  \/ \E c \in Procs : EvalAssigned(c)
  \/ \E c \in Procs : EvalOpenTime(c)
  \/ \E c \in Procs : EvalPeriodTable(c)

SpecFunctions == InitFunctions /\ [][NextFunctions]_vars

TypeOK ==
  /\ DOMAIN blocks = SlotKeys
  /\ \A c \in Procs :
       pc[c] \in {"idle", "grid_block", "grid", "put_txn", "put_commit", "del_read", "del_commit",
                  "blk_write", "clr_read", "clr_commit", "done", "settings"}
  /\ stale \subseteq Procs

(* ------------------------------- claims ------------------------------- *)
PutPcs == {"put_txn", "put_commit"}

PutOk == <<TRUE, MSG_RESERVED>>
PutConflict == <<FALSE, MSG_ALREADY>>

\* the record put_reservation writes for the arguments held by c
OwnPayload(c) ==
  Payload(arg[c].slot, arg[c].grade, arg[c].class_no, arg[c].purpose, arg[c].pin)

\* day number of a date in September 2025
Sep(n) == n - 1

\* C1: when callers race put_reservation(force=False) from an empty store,
\* each slot has exactly one winner: at every moment the calls that returned
\* success are as many as the slots that hold a record; a call returns
\* success exactly when no call on its slot returned success before it, and
\* then the stored record is its payload; every other call returns
\* (False, "already reserved") and leaves the record as the winner wrote it.
C1_OneWinnerPerSlot ==
  /\ [](Cardinality({c \in Procs : result[c] = PutOk})
          = Cardinality({k \in SlotKeys : reservations[k] # NoDoc}))
  /\ [][\A c \in Procs :
          (pc[c] \in PutPcs /\ pc'[c] = "idle") =>
            IF reservations[id(arg[c].slot)] = NoDoc
              THEN /\ result'[c] = PutOk
                   /\ reservations' =
                        [reservations EXCEPT ![id(arg[c].slot)] = OwnPayload(c)]
              ELSE /\ result'[c] = PutConflict
                   /\ reservations' = reservations]_vars

\* all racers have returned, one with success and the others with the conflict
C1_Witness ==
  /\ Cardinality(Procs) >= 2
  /\ \A c \in Procs : pc[c] = "idle" /\ result[c] # NoResult
  /\ \E w \in Procs :
       /\ result[w] = PutOk
       /\ \A c \in Procs \ {w} : result[c] = PutConflict
  /\ Cardinality({k \in SlotKeys : reservations[k] # NoDoc}) = 1

\* C2: a put_reservation with force=False whose transaction finds the slot
\* occupied returns (False, "already reserved") and writes nothing.
C2_OccupiedUnforcedFails ==
  [][\A c \in Procs :
       (/\ pc[c] = "put_txn" /\ pc'[c] # "put_txn"
        /\ ~arg[c].force
        /\ reservations[id(arg[c].slot)] # NoDoc) =>
         /\ pc'[c] = "idle"
         /\ result'[c] = PutConflict
         /\ reservations' = reservations]_vars

\* an unforced put has returned the conflict and another caller's record stands
C2_Witness ==
  \E c \in Procs, k \in SlotKeys :
    /\ pc[c] = "idle" /\ result[c] = PutConflict
    /\ reservations[k] # NoDoc

\* C3: a put_reservation with force=True never returns failure: whenever it
\* returns, it returns success and the stored record is exactly its payload,
\* whether the slot was empty or held another record.
C3_ForcedAlwaysCommits ==
  [][\A c \in Procs :
       (pc[c] \in PutPcs /\ arg[c].force /\ pc'[c] # pc[c]) =>
         \/ pc'[c] \in PutPcs /\ reservations' = reservations
         \/ /\ pc'[c] = "idle"
            /\ result'[c] = PutOk
            /\ reservations'[id(arg[c].slot)] = OwnPayload(c)]_vars

\* a forced put is at its commit over a record made with another PIN
C3_Witness ==
  \E c \in Procs :
    /\ pc[c] = "put_commit" /\ arg[c].force /\ c \notin stale
    /\ reservations[id(arg[c].slot)] # NoDoc
    /\ reservations[id(arg[c].slot)].pin_hash # hash_pin(arg[c].pin)

\* C4: put_reservation returns a (flag, message) value: (True, message) in
\* the step that stores its own payload, (False, message) in a step that
\* writes nothing; no other step of the call writes.
C4_ResultMatchesWrite ==
  [][\A c \in Procs :
       (pc[c] \in PutPcs /\ pc'[c] # pc[c]) =>
         \/ pc'[c] \in PutPcs /\ reservations' = reservations
         \/ /\ pc'[c] = "idle"
            /\ result'[c] = PutOk
            /\ pc[c] = "put_commit"
            /\ reservations' =
                 [reservations EXCEPT ![id(arg[c].slot)] = OwnPayload(c)]
         \/ /\ pc'[c] = "idle"
            /\ result'[c] = PutConflict
            /\ reservations' = reservations]_vars

\* one caller holds a success and another the conflict value
C4_Witness ==
  \E c, d \in Procs :
    /\ pc[c] = "idle" /\ result[c] = PutOk
    /\ pc[d] = "idle" /\ result[d] = PutConflict

\* C5: a delete_reservation with admin=False that finds a record whose
\* pin_hash is not the hash of its pin (or that has no pin) returns
\* (False, "PIN mismatch") and leaves the store as it is, at every attempt.
C5_WrongPinKeepsRecord ==
  [][\A c \in Procs :
       (/\ pc[c] = "del_read" /\ pc'[c] # "del_read"
        /\ ~arg[c].admin
        /\ reservations[arg[c].slot_id] # NoDoc
        /\ \/ arg[c].pin = <<>>
           \/ hash_pin(arg[c].pin) # reservations[arg[c].slot_id].pin_hash) =>
         /\ pc'[c] = "idle"
         /\ result'[c] = <<FALSE, MSG_PIN_MISMATCH>>
         /\ reservations' = reservations]_vars

\* every caller has been refused for its PIN and the record stands
C5_Witness ==
  /\ \A c \in Procs : pc[c] = "idle" /\ result[c] = <<FALSE, MSG_PIN_MISMATCH>>
  /\ \E k \in SlotKeys : reservations[k] # NoDoc

\* C6: a delete_reservation that finds no record returns (False, "nothing to
\* delete") and changes neither store, admin or not; and a delete that
\* returns success leaves no record, so that a second delete fails this way.
C6_DeleteMissingFails ==
  [][\A c \in Procs :
       /\ (/\ pc[c] = "del_read" /\ pc'[c] # "del_read"
           /\ reservations[arg[c].slot_id] = NoDoc) =>
            /\ pc'[c] = "idle"
            /\ result'[c] = <<FALSE, MSG_NOTHING>>
            /\ reservations' = reservations /\ blocks' = blocks
       /\ (pc[c] = "del_commit" /\ pc'[c] = "idle") =>
            /\ result'[c][1]
            /\ reservations'[arg[c].slot_id] = NoDoc]_vars

\* one caller's delete succeeded with a PIN and another's then found nothing
C6_Witness ==
  \E c, d \in Procs :
    /\ pc[c] = "idle" /\ result[c] = <<TRUE, MSG_DELETED>>
    /\ pc[d] = "idle" /\ result[d] = <<FALSE, MSG_NOTHING>>
    /\ \A k \in SlotKeys : reservations[k] = NoDoc

\* C7: a delete_reservation with admin=True that finds a record goes on to
\* delete it whatever its pin argument, returns success, and leaves no
\* record for the slot id.
C7_AdminDeletes ==
  [][\A c \in Procs :
       /\ (/\ pc[c] = "del_read" /\ pc'[c] # "del_read"
           /\ arg[c].admin
           /\ reservations[arg[c].slot_id] # NoDoc) =>
            pc'[c] = "del_commit"
       /\ (pc[c] = "del_commit" /\ arg[c].admin /\ pc'[c] = "idle") =>
            /\ result'[c] = <<TRUE, MSG_ADMIN_DELETED>>
            /\ reservations'[arg[c].slot_id] = NoDoc]_vars

\* an admin delete has returned success and the store is empty
C7_Witness ==
  \E c \in Procs :
    /\ pc[c] = "idle" /\ result[c] = <<TRUE, MSG_ADMIN_DELETED>>
    /\ \A k \in SlotKeys : reservations[k] = NoDoc

\* C8: no reservation is written for a slot id while a Block exists for it.
C8_NoWriteWhileBlocked ==
  [][\A k \in SlotKeys :
       blocks[k] # NoDoc =>
         (reservations'[k] = reservations[k] \/ reservations'[k] = NoDoc)]_vars

\* C9: no reservation exists for a Wednesday period 6.
C9_NoWednesdaySixth ==
  \A k \in SlotKeys : (k[1] % 7 = 2 /\ k[2] = 6) => reservations[k] = NoDoc

\* C10: no step of a non-admin session creates or replaces a reservation for
\* a slot dated 2025-09-01..2025-09-10, whatever the period, grade, clock
\* reading and store contents.
C10_NoBookingInBreak ==
  [][\A k \in SlotKeys :
       (Sep(1) <= k[1] /\ k[1] <= Sep(10)) =>
         (reservations'[k] = reservations[k] \/ reservations'[k] = NoDoc)]_vars

\* a non-admin session has the cell of 2025-09-10 on its grid, empty and
\* unblocked, after the general booking window opened: it is drawn as break
C10_Witness ==
  \E c \in Procs :
    /\ ~is_admin(c)
    /\ pc[c] = "grid" /\ arg[c].slot.day = Sep(10) /\ view[c] = "vac"
    /\ reservations[id(arg[c].slot)] = NoDoc
    /\ blocks[id(arg[c].slot)] = NoDoc
    /\ DtGeq(now, open_time_for_week(week_monday(Sep(10))))
\* C11: can_book decides in priority order: an admin session is allowed;
\* otherwise a grade equal to the week's assigned grade (when one is set) is
\* allowed, before the opening too; otherwise the request is allowed from the
\* opening instant on, that instant included; otherwise it is denied with a
\* message carrying the opening time.  Store contents play no part.
C11_CanBookPriority ==
  \A c \in Procs :
    (pc[c] = "done" /\ arg[c].fn = "can_book") =>
      LET assignedGrade == assigned_grade_for_week(arg[c].monday)
          openTime == open_time_for_week(arg[c].monday)
          priority == assignedGrade # NoGrade /\ arg[c].user_grade = assignedGrade
          opened == \/ now[1] > openTime[1]
                    \/ now[1] = openTime[1] /\ now[2] >= openTime[2]
      IN /\ result[c][1] = (is_admin(c) \/ priority \/ opened)
         /\ result[c][2][1] =
              IF is_admin(c) THEN "admin"
              ELSE IF priority THEN "priority week"
              ELSE IF opened THEN "open"
              ELSE "not open yet, opens"
         /\ ~result[c][1] =>
              result[c][2][2] = <<isoformat(openTime[1])[2],
                                  isoformat(openTime[1])[3], 7, 0>>

\* a non-admin session of another grade asks at the opening instant itself
C11_Witness ==
  \E c \in Procs :
    /\ pc[c] = "done" /\ arg[c].fn = "can_book"
    /\ ~is_admin(c)
    /\ assigned_grade_for_week(arg[c].monday) \notin {NoGrade, arg[c].user_grade}
    /\ now = open_time_for_week(arg[c].monday)
    /\ result[c] = <<TRUE, <<"open">> >>

\* C12: the assigned grade of a week is the loaded override for its Monday
\* when there is one, else the default table's grade for that Monday when
\* there is one, else none.  Without overrides the week of 2025-09-08 has
\* grade 1 and the week of 2025-10-06 (sequence index 4) has none; an
\* override replaces the default of its own Monday only.
C12_OverrideThenDefault ==
  \A c \in Procs :
    (pc[c] = "done" /\ arg[c].fn = "assigned_grade_for_week") =>
      LET doc == arg[c].doc
          monday == arg[c].monday
          key == DateFrom(2025, 9, monday)
          index == (monday - Sep(8)) \div 7
          inTable == /\ monday >= Sep(8)
                     /\ index < Len(ASSIGN_DEFAULT_SEQUENCE)
                     /\ ASSIGN_DEFAULT_SEQUENCE[index + 1] # NoGrade
          overridden == doc.exists /\ key \in DOMAIN doc.data
      IN /\ result[c] =
              <<IF overridden THEN doc.data[key]
                ELSE IF inTable THEN ASSIGN_DEFAULT_SEQUENCE[index + 1]
                ELSE NoGrade>>
         /\ (~overridden /\ key = <<2025, 9, 8>>) => result[c] = <<1>>
         /\ (~overridden /\ key = <<2025, 10, 6>>) =>
              index = 4 /\ result[c] = <<NoGrade>>

\* the week of 2025-09-08 asked with its default overridden, and the week of
\* 2025-09-15 still at its default under the same document
C12_Witness ==
  \E c \in Procs :
    /\ pc[c] = "done" /\ arg[c].fn = "assigned_grade_for_week"
    /\ arg[c].doc.exists
    /\ <<2025, 9, 8>> \in DOMAIN arg[c].doc.data
    /\ arg[c].doc.data[<<2025, 9, 8>>] = 5
    /\ arg[c].monday = Sep(8)
    /\ result[c] = <<5>>

\* C13: once an admin has saved new class counts, every later load of the
\* settings in the same process returns the saved values: a script run
\* always gets the dict the settings document holds.
C13_ReadsSeeSavedCounts ==
  [][\A c \in Procs :
       (pc[c] = "idle" /\ pc'[c] = "settings") => view'[c] = settings'.data]_vars

\* C14: for every Monday, open_time_for_week is 07:00 on the day four days
\* before it, a Thursday of the week before, whatever the clock and the
\* stores hold; for 2025-09-08 it is 2025-09-04 07:00.
C14_OpenThursdaySeven ==
  \A c \in Procs :
    (pc[c] = "done" /\ arg[c].fn = "open_time_for_week") =>
      LET monday == arg[c].monday
          open_dt == result[c][1]
      IN /\ monday - open_dt[1] = 4
         /\ weekday(open_dt[1]) = 3
         /\ week_monday(open_dt[1]) = monday - 7
         /\ format_hhmm(open_dt[2]) = <<7, 0>>
         /\ isoformat(monday) = <<2025, 9, 8>> =>
              isoformat(open_dt[1]) = <<2025, 9, 4>>

\* asked for the week of 2025-09-08
C14_Witness ==
  \E c \in Procs :
    /\ pc[c] = "done" /\ arg[c].fn = "open_time_for_week"
    /\ isoformat(arg[c].monday) = <<2025, 9, 8>>
    /\ result[c] = << <<Sep(4), 7 * 60>> >>

\* C15: build_period_table(n) has exactly the periods 1..n; period 1 starts
\* at 08:50, every period ends 40 minutes after it starts, every later
\* period starts 10 minutes after the one before ends; for n = 6 the table
\* runs 08:50-09:30, 09:40-10:20, ... and ends at 13:40.
C15_PeriodTable ==
  \A c \in Procs :
    (pc[c] = "done" /\ arg[c].fn = "build_period_table") =>
      LET n == arg[c].max_periods
          periods == result[c][1]
      IN /\ DOMAIN periods = 1..n
         /\ n >= 1 => format_hhmm(periods[1][1]) = <<8, 50>>
         /\ \A p \in 1..n : periods[p][2] = periods[p][1] + 40
         /\ \A p \in 2..n : periods[p][1] = periods[p - 1][2] + 10
         /\ n = 6 =>
              /\ format_hhmm(periods[1][2]) = <<9, 30>>
              /\ format_hhmm(periods[2][1]) = <<9, 40>>
              /\ format_hhmm(periods[2][2]) = <<10, 20>>
              /\ format_hhmm(periods[6][2]) = <<13, 40>>

\* the six-period table the grid uses
C15_Witness ==
  \E c \in Procs :
    /\ pc[c] = "done" /\ arg[c].fn = "build_period_table"
    /\ arg[c].max_periods = 6
    /\ Len(result[c][1]) = 6
    /\ result[c][1][6] = <<13 * 60, 13 * 60 + 40>>

\* r is s without its leading and trailing spaces
IsTrimOf(r, s) ==
  /\ r = <<>> \/ (r[1] # " " /\ r[Len(r)] # " ")
  /\ \E i \in 0..Len(s) :
       /\ i + Len(r) <= Len(s)
       /\ SubSeq(s, i + 1, i + Len(r)) = r
       /\ \A n \in (1..i) \cup ((i + Len(r) + 1)..Len(s)) : s[n] = " "

\* C16: clear_block fails with "not blocked" and changes nothing when it
\* finds no block under the slot id; when it finds one it goes on to delete
\* it, after which the slot has no block, and returns success.  set_block
\* leaves the slot with a block carrying the trimmed reason, whatever block
\* the slot had before.  Neither touches the block of another slot.
C16_BlockRegistry ==
  [][\A c \in Procs :
       /\ (pc[c] = "clr_read" /\ pc'[c] # "clr_read") =>
            /\ blocks' = blocks
            /\ IF blocks[arg[c].slot_id] = NoDoc
                 THEN pc'[c] = "idle" /\ result'[c] = <<FALSE, MSG_NOT_BLOCKED>>
                 ELSE pc'[c] = "clr_commit"
       /\ (pc[c] = "clr_commit" /\ pc'[c] # "clr_commit") =>
            /\ blocks'[arg[c].slot_id] = NoDoc
            /\ \A k \in SlotKeys \ {arg[c].slot_id} : blocks'[k] = blocks[k]
            /\ pc'[c] = "idle" /\ result'[c] = <<TRUE, MSG_UNBLOCKED>>
       /\ (pc[c] = "blk_write" /\ pc'[c] # "blk_write") =>
            LET k == <<arg[c].slot.day, arg[c].slot.period>> IN
              /\ blocks'[k] # NoDoc
              /\ blocks'[k].date = k[1] /\ blocks'[k].period = k[2]
              /\ IsTrimOf(blocks'[k].reason, arg[c].reason)
              /\ \A j \in SlotKeys \ {k} : blocks'[j] = blocks[j]
              /\ pc'[c] = "idle" /\ result'[c] = <<TRUE, MSG_BLOCKED>>
    ]_vars

\* one caller has cleared a block, another was told there was none, and a
\* set_block has left a block with reason "e"
C16_Witness ==
  /\ \E c \in Procs : result[c] = <<TRUE, MSG_UNBLOCKED>>
  /\ \E c \in Procs : result[c] = <<FALSE, MSG_NOT_BLOCKED>>
  /\ \E k \in SlotKeys : blocks[k] # NoDoc /\ blocks[k].reason = <<"e">>

\* C17: a stored reservation is never replaced by a different one: a slot's
\* record changes only from none to a record or from a record to none.
C17_NeverReplaced ==
  [][\A k \in SlotKeys :
       reservations[k] # NoDoc =>
         (reservations'[k] = reservations[k] \/ reservations'[k] = NoDoc)]_vars

\* C17, amended: a stored reservation is replaced by a different one only by
\* the commit of a put_reservation with force=True on that slot, which
\* overwrites it whole with its own payload; every other change of a slot's
\* record is a creation in an empty slot or a deletion.
C17_OnlyForcedPutReplaces ==
  [][\A k \in SlotKeys :
       (reservations[k] # NoDoc /\ reservations'[k] # reservations[k]
          /\ reservations'[k] # NoDoc) =>
         \E c \in Procs :
           /\ pc[c] = "put_commit" /\ pc'[c] = "idle"
           /\ arg[c].force
           /\ <<arg[c].slot.day, arg[c].slot.period>> = k
           /\ reservations'[k] = OwnPayload(c)
           /\ result'[c] = PutOk]_vars

\* a forced put is at its commit over a record of another grade
C17_Witness ==
  \E c \in Procs :
    /\ pc[c] = "put_commit" /\ arg[c].force /\ c \notin stale
    /\ reservations[id(arg[c].slot)] # NoDoc
    /\ reservations[id(arg[c].slot)].grade # arg[c].grade

\* C18: every stored reservation has a purpose with some text in it: the
\* stored (trimmed) purpose is never the empty string.
C18_PurposeNonEmpty ==
  \A k \in SlotKeys : reservations[k] # NoDoc => reservations[k].purpose # <<>>

\* C19: a put_reservation without force never creates a reservation in a
\* slot that holds a block when the put commits, however the block's write
\* and the booking session's render interleaved.
C19_UnforcedPutRespectsBlock ==
  [][\A c \in Procs :
       (pc[c] = "put_commit" /\ ~arg[c].force
          /\ blocks[id(arg[c].slot)] # NoDoc) =>
         reservations'[id(arg[c].slot)] = reservations[id(arg[c].slot)]]_vars

\* C20: a delete_reservation with admin=False removes only a record whose
\* pin_hash is the hash of the PIN it was called with, whatever other
\* sessions did to the slot since it read the record.
C20_DeleteRemovesOwnPinOnly ==
  [][\A c \in Procs :
       (pc[c] = "del_commit" /\ ~arg[c].admin /\ pc'[c] = "idle"
          /\ reservations[arg[c].slot_id] # NoDoc) =>
         reservations[arg[c].slot_id].pin_hash = hash_pin(arg[c].pin)]_vars

\* C21: before the opening of a slot's week, no put of a non-admin session
\* commits unless its grade is the week's assigned grade: a session of
\* another grade, or any session when the week has no assigned grade,
\* creates no reservation through the grid while now < open time.
C21_NoEarlyBooking ==
  [][\A c \in Procs :
       (~is_admin(c) /\ pc[c] = "put_commit" /\ pc'[c] = "idle"
          /\ reservations' # reservations) =>
         LET monday == arg[c].slot.day - (arg[c].slot.day % 7)
             assignedGrade == assigned_grade_for_week(monday)
             openTime == open_time_for_week(monday)
             early == \/ now[1] < openTime[1]
                      \/ now[1] = openTime[1] /\ now[2] < openTime[2]
         IN early => (assignedGrade # NoGrade /\ arg[c].grade = assignedGrade)
    ]_vars

\* before the opening of the week of 2025-09-15 the priority grade has
\* booked, and a session looks at the open cell of the week of 2025-10-06,
\* which has no assigned grade
C21_Witness ==
  /\ now = <<10, 6 * 60 + 59>>
  /\ reservations[<<16, 1>>] # NoDoc
  /\ \E c \in Procs :
       /\ pc[c] = "grid" /\ view[c] = "open"
       /\ arg[c].slot.day = 37
       /\ assigned_grade_for_week(week_monday(37)) = NoGrade

\* C22: reservations and blocks are separate record spaces: no step of
\* set_block or clear_block changes any reservation, no step of
\* put_reservation or delete_reservation changes any block, and every step
\* leaves the records of all slot ids but its own as they were.
C22_SeparateRecordSpaces ==
  [][\A c \in Procs :
       /\ (pc[c] = "blk_write" /\ pc'[c] # pc[c]) =>
            /\ reservations' = reservations
            /\ \A k \in SlotKeys \ {<<arg[c].slot.day, arg[c].slot.period>>} :
                 blocks'[k] = blocks[k]
       /\ (pc[c] \in {"clr_read", "clr_commit"} /\ pc'[c] # pc[c]) =>
            /\ reservations' = reservations
            /\ \A k \in SlotKeys \ {arg[c].slot_id} : blocks'[k] = blocks[k]
       /\ (pc[c] \in PutPcs /\ pc'[c] # pc[c]) =>
            /\ blocks' = blocks
            /\ \A k \in SlotKeys \ {<<arg[c].slot.day, arg[c].slot.period>>} :
                 reservations'[k] = reservations[k]
       /\ (pc[c] \in {"del_read", "del_commit"} /\ pc'[c] # pc[c]) =>
            /\ blocks' = blocks
            /\ \A k \in SlotKeys \ {arg[c].slot_id} :
                 reservations'[k] = reservations[k]
       /\ (pc[c] = "idle" /\ pc'[c] # pc[c]) =>
            reservations' = reservations /\ blocks' = blocks
    ]_vars

\* one slot holds a reservation and a block at once while the other slot
\* holds neither, after a put and a set_block have both returned
C22_Witness ==
  /\ reservations[<<16, 6>>] # NoDoc /\ blocks[<<16, 6>>] # NoDoc
  /\ reservations[<<16, 1>>] = NoDoc /\ blocks[<<16, 1>>] = NoDoc
  /\ \E c \in Procs : pc[c] = "idle" /\ result[c] = <<TRUE, MSG_BLOCKED>>

====
